---- MODULE Spec2Model ----
(***************************************************************************)
(* A model of the three scripts of the EuroMillions local tooling:         *)
(*   test-local.py      the API smoke test (seven checks, exit status),    *)
(*   diagnose-local.py  the diagnostic walk over five probes,              *)
(*   run-local.py       the launcher that prepares and starts the server.  *)
(* Python values are records tagged with their type in field t; Python     *)
(* text is a sequence of word tokens, and the substring test `a in b` on   *)
(* text is the contiguous-subsequence test on the tokens.                  *)
(***************************************************************************)
EXTENDS Integers, Sequences, FiniteSets, TLC

VARIABLES script, pc, wire, response, probes, outcomes, passed, failed,
          succ, printed, exitStatus, steps, fault, missing, os

vars == <<script, pc, wire, response, probes, outcomes, passed, failed,
          succ, printed, exitStatus, steps, fault, missing, os>>

(***************************************************************************)
(* Bounds of the model (not program constants).                            *)
(***************************************************************************)
\* longest JSON array the modelled server sends as a body
MaxListLen == 2

(***************************************************************************)
(* Python values.                                                          *)
(***************************************************************************)
NoneV == [t |-> "None"]

PyInt(n) == [t |-> "int", v |-> n]

Bool(b) == [t |-> "bool", v |-> b]

Str(w) == [t |-> "str", v |-> w]

List(s) == [t |-> "list", v |-> s]

\* a dict is its set of <<key, value>> items (keys are text of one token)
Dict(items) == [t |-> "dict", v |-> items]

DictKeys(d) == {it[1] : it \in d.v}

DictGet(d, k) == (CHOOSE it \in d.v : it[1] = k)[2]

\* bool(x): the truth value Python gives a value in `if x` / `a and x`
Truthy(x) ==
  CASE x.t = "None" -> FALSE
    [] x.t = "bool" -> x.v
    [] x.t = "int"  -> x.v # 0
    [] x.t = "str"  -> Len(x.v) > 0
    [] x.t = "list" -> Len(x.v) > 0
    [] x.t = "dict" -> x.v # {}

\* pat occurs in text (both token sequences): Python's `pat in text`
SubText(pat, text) ==
  \E i \in 0..(Len(text) - Len(pat)) :
     \A j \in 1..Len(pat) : text[i + j] = pat[j]

\* `key in x` raises TypeError when x is not a container
InRaises(x) == x.t \in {"None", "int", "bool"}

\* `key in x` for a text key of one token, where it does not raise
In(key, x) ==
  CASE x.t = "dict" -> key \in DictKeys(x)
    [] x.t = "list" -> \E i \in 1..Len(x.v) : x.v[i] = Str(<<key>>)
    [] x.t = "str"  -> SubText(<<key>>, x.v)
    [] OTHER        -> FALSE

(***************************************************************************)
(* The endpoints and what the modelled server may put on the wire.         *)
(***************************************************************************)
BASE_URL == "http://localhost:5000"

\* the tests list of test-local.py: name, path under BASE_URL, expected keys
\* (an empty sequence stands for None: both are falsy in `if expected_keys`)
tests ==
  << [name |-> "Server Health",    url |-> "/api/stats",
      keys |-> <<"totalCombinations", "drawnCombinations">>],
     [name |-> "Draw History",     url |-> "/api/history", keys |-> <<>>],
     [name |-> "Current Jackpot",  url |-> "/api/jackpot",
      keys |-> <<"amountEur", "amountZar">>],
     [name |-> "Next Draw Info",   url |-> "/api/next-draw",
      keys |-> <<"nextDrawDate", "timeUntilDraw">>],
     [name |-> "Number Analytics", url |-> "/api/analytics/numbers",
      keys |-> <<"hotNumbers", "coldNumbers">>],
     [name |-> "Star Analytics",   url |-> "/api/analytics/stars",
      keys |-> <<"hotStars", "coldStars">>],
     [name |-> "Predictions",      url |-> "/api/predictions", keys |-> <<>>] >>

\* HTTP statuses the server answers with, and their reason phrases
Statuses == {200, 201, 404, 500}

ReasonPhrase(code) ==
  CASE code = 200 -> <<"OK">>
    [] code = 201 -> <<"Created">>
    [] code = 404 -> <<"Not", "Found">>
    [] code = 500 -> <<"Internal", "Server", "Error">>

\* the text of the OS error carried by URLError.reason
RefusedPosix == <<"[Errno", "111]", "Connection", "refused">>

RefusedWindows == <<"[WinError", "10061]", "No", "connection", "could", "be",
                    "made", "because", "the", "target", "machine", "actively",
                    "refused", "it">>

NameUnknown == <<"[Errno", "-2]", "Name", "or", "service", "not", "known">>

ConnectTimedOut == <<"timed", "out">>

UrlErrorReasons == {RefusedPosix, RefusedWindows, NameUnknown, ConnectTimedOut}

\* the reasons with which the OS reports a refused connection
RefusedReasons == {RefusedPosix, RefusedWindows}

(***************************************************************************)
(* JSON bodies the server may send, per endpoint.                          *)
(***************************************************************************)
\* the expected keys of a path (those of the tests list; empty if none)
KeysOf(url) ==
  IF \E i \in 1..Len(tests) : tests[i].url = url
  THEN tests[CHOOSE i \in 1..Len(tests) : tests[i].url = url].keys
  ELSE <<>>

Range(s) == {s[i] : i \in 1..Len(s)}

\* bodies of any endpoint: not a mapping, or an empty one
CommonBodies ==
  { NoneV, PyInt(0), PyInt(5), Bool(TRUE), Str(<<"ok">>), List(<<>>),
    Dict({}), Dict({<<"message", Str(<<"ok">>)>>}) }

\* mappings carrying a subset of the expected keys, arrays of up to
\* MaxListLen texts that name expected keys or something else, and a text
\* that names the expected keys
KeyBodies(url) ==
  LET ks == KeysOf(url) IN
    { Dict({<<k, PyInt(1)>> : k \in S}) : S \in SUBSET Range(ks) }
    \cup UNION { { List(l) :
                      l \in [1..n -> {Str(<<k>>) : k \in Range(ks) \cup {"id"}}] } :
                  n \in 0..MaxListLen }
    \cup { Str(ks) }

GoodDraw ==
  Dict({ <<"drawDate", Str(<<"2024-01-02T20:00:00.000Z">>)>>,
         <<"numbers", List(<<PyInt(3), PyInt(17)>>)>>,
         <<"stars", List(<<PyInt(2)>>)>> })

HistoryBodies ==
  { List(<<GoodDraw>>),
    List(<<Dict({<<"numbers", List(<<PyInt(3)>>)>>})>>),
    List(<<Dict({ <<"drawDate", Str(<<"yesterday">>)>>,
                  <<"numbers", List(<<>>)>>, <<"stars", List(<<>>)>> })>>),
    List(<<Dict({ <<"drawDate", Str(<<"2024-01-02T20:00:00.000Z">>)>>,
                  <<"numbers", NoneV>>, <<"stars", List(<<>>)>> })>>),
    List(<<PyInt(5)>>) }

StatsBodies ==
  { Dict({ <<"totalCombinations", PyInt(139838160)>>,
           <<"drawnCombinations", PyInt(50)>>,
           <<"neverDrawnCombinations", PyInt(139838110)>> }),
    Dict({ <<"totalCombinations", Str(<<"139838160">>)>>,
           <<"drawnCombinations", PyInt(50)>>,
           <<"neverDrawnCombinations", PyInt(139838110)>> }) }

InitBodies ==
  { Dict({ <<"stats", Dict({ <<"drawnCombinations", PyInt(50)>>,
                             <<"predictionAccuracy", PyInt(1)>> })>> }),
    Dict({ <<"stats", Dict({ <<"drawnCombinations", PyInt(50)>> })>> }),
    Dict({ <<"stats", Dict({ <<"drawnCombinations", PyInt(50)>>,
                             <<"predictionAccuracy", NoneV>> })>> }),
    Dict({ <<"stats", NoneV>> }),
    List(<<Str(<<"stats">>)>>) }

HotItem(n) == Dict({ <<"number", PyInt(n)>>, <<"frequency", PyInt(4)>> })

AnalyticsBodies ==
  { Dict({ <<"hotNumbers", List(<<HotItem(7)>>)>>,
           <<"coldNumbers", List(<<HotItem(9)>>)>>,
           <<"hotStars", List(<<HotItem(2)>>)>> }),
    Dict({ <<"hotNumbers", List(<<>>)>>, <<"coldNumbers", List(<<>>)>> }),
    Dict({ <<"hotNumbers", List(<<PyInt(7)>>)>>,
           <<"coldNumbers", List(<<>>)>> }),
    Dict({ <<"hotNumbers", PyInt(7)>>, <<"coldNumbers", PyInt(9)>> }),
    Dict({ <<"hotNumbers", List(<<HotItem(7)>>)>>,
           <<"coldNumbers", List(<<>>)>>,
           <<"hotStars", List(<<Dict({})>>)>> }) }

Bodies(url) ==
  CommonBodies \cup KeyBodies(url)
  \cup (IF url = "/api/stats" THEN StatsBodies ELSE {})
  \cup (IF url = "/api/history" THEN HistoryBodies ELSE {})
  \cup (IF url = "/api/initialize" THEN InitBodies ELSE {})
  \cup (IF url = "/api/analytics/numbers" THEN AnalyticsBodies ELSE {})

\* the bytes of a response body: not UTF-8, UTF-8 that is not JSON, or the
\* JSON text of a value
RawBodies(url) ==
  { [enc |-> "bad-utf8"], [enc |-> "not-json"] }
  \cup { [enc |-> "json", value |-> b] : b \in Bodies(url) }

\* everything one GET of url can end in, as urlopen()/read() see it (the
\* body of a response outside 2xx is never read: one body stands for all)
Wires(url) ==
  { [kind |-> "http", status |-> s, raw |-> r] :
      s \in {c \in Statuses : 200 <= c /\ c < 300}, r \in RawBodies(url) }
  \cup { [kind |-> "http", status |-> s, raw |-> [enc |-> "not-json"]] :
           s \in {c \in Statuses : ~(200 <= c /\ c < 300)} }
  \cup { [kind |-> "urlerror", reason |-> r] : r \in UrlErrorReasons }
  \cup { [kind |-> "error", cls |-> "timeout", text |-> <<"timed", "out">>],
         [kind |-> "error", cls |-> "timeout", text |-> <<"read", "timeout">>],
         [kind |-> "error", cls |-> "IncompleteRead",
          text |-> <<"IncompleteRead(0", "bytes", "read)">>] }

NoWire == [kind |-> "none"]

(***************************************************************************)
(* make_request: the try body and the except clauses of both variants.     *)
(***************************************************************************)
Return(value) == [outcome |-> "return", value |-> value]

Raise(exc) == [outcome |-> "raise", exc |-> exc]

\* the base class of each exception class (Python's hierarchy)
BaseOf(cls) ==
  CASE cls = "HTTPError"          -> "URLError"
    [] cls = "URLError"           -> "OSError"
    [] cls = "timeout"            -> "OSError"
    [] cls = "OSError"            -> "Exception"
    [] cls = "JSONDecodeError"    -> "ValueError"
    [] cls = "UnicodeDecodeError" -> "ValueError"
    [] cls = "ValueError"         -> "Exception"
    [] cls = "IncompleteRead"     -> "Exception"
    [] cls = "KeyError"           -> "Exception"
    [] cls = "TypeError"          -> "Exception"
    [] cls = "AttributeError"     -> "Exception"
    [] cls = "Exception"          -> "BaseException"
    [] cls = "KeyboardInterrupt"  -> "BaseException"
    [] OTHER                      -> "BaseException"

RECURSIVE IsInstance(_, _)
\* `except base as e` catches an exception of class cls
IsInstance(cls, base) ==
  IF cls = base THEN TRUE
  ELSE IF cls = "BaseException" THEN FALSE
  ELSE IsInstance(BaseOf(cls), base)

Result(status, success, data, error) ==
  [status |-> status, success |-> success, data |-> data, error |-> error]

\* the body of the try statement: urlopen, read().decode('utf-8'), and the
\* result record whose 'data' entry calls json.loads
TryBody(w) ==
  CASE w.kind = "urlerror" ->
         Raise([cls |-> "URLError", reason |-> w.reason, text |-> w.reason])
    [] w.kind = "error" ->
         Raise([cls |-> w.cls, text |-> w.text])
    [] w.kind = "http" ->
         IF ~(200 <= w.status /\ w.status < 300)
         THEN Raise([cls |-> "HTTPError", code |-> w.status,
                     reason |-> ReasonPhrase(w.status),
                     text |-> <<"HTTP", "Error">>])
         ELSE IF w.raw.enc = "bad-utf8"
         THEN Raise([cls |-> "UnicodeDecodeError",
                     text |-> <<"'utf-8'", "codec", "can't", "decode">>])
         ELSE IF w.raw.enc = "not-json"
         THEN Raise([cls |-> "JSONDecodeError",
                     text |-> <<"Expecting", "value:", "line", "1">>])
         ELSE Return(Result(w.status, w.status = 200, w.raw.value, NoneV))

\* the except clauses of make_request in test-local.py
HandleTest(e) ==
  IF IsInstance(e.cls, "HTTPError")
  THEN Return(Result(e.code, FALSE, NoneV,
                     Str(<<"HTTP", ToString(e.code) \o ":">> \o e.reason)))
  ELSE IF IsInstance(e.cls, "URLError")
  THEN Return(Result(0, FALSE, NoneV,
                     Str(<<"Connection", "error:">> \o e.reason)))
  ELSE IF IsInstance(e.cls, "JSONDecodeError")
  THEN Return(Result(0, FALSE, NoneV, Str(<<"Invalid", "JSON:">> \o e.text)))
  ELSE IF IsInstance(e.cls, "Exception")
  THEN Return(Result(0, FALSE, NoneV,
                     Str(<<"Unexpected", "error:">> \o e.text)))
  ELSE Raise(e)

ServerNotRunning ==
  <<"Connection", "refused", "-", "server", "is", "not", "running">>

\* the except clauses without the final `except Exception`
HandleDiagnose_NoCatchAll(e) ==
  IF IsInstance(e.cls, "HTTPError")
  THEN Return(Result(e.code, FALSE, NoneV,
                     Str(<<"HTTP", ToString(e.code) \o ":">> \o e.reason)))
  ELSE IF IsInstance(e.cls, "URLError")
  THEN Return(Result(0, FALSE, NoneV, Str(e.reason)))
  ELSE IF IsInstance(e.cls, "JSONDecodeError")
  THEN Return(Result(0, FALSE, NoneV, Str(<<"Invalid", "JSON:">> \o e.text)))
  ELSE Raise(e)

\* the except clauses of make_request in diagnose-local.py
HandleDiagnose(e) ==
  IF IsInstance(e.cls, "HTTPError")
  THEN Return(Result(e.code, FALSE, NoneV,
                     Str(<<"HTTP", ToString(e.code) \o ":">> \o e.reason)))
  ELSE IF IsInstance(e.cls, "URLError")
  THEN LET error_msg ==
             IF SubText(<<"Connection", "refused">>, e.reason)
             THEN ServerNotRunning
             ELSE IF SubText(<<"Name", "or", "service", "not", "known">>,
                             e.reason)
             THEN <<"Server", "not", "found", "-", "check", "if",
                    "localhost:5000", "is", "accessible">>
             ELSE e.reason
       IN Return(Result(0, FALSE, NoneV, Str(error_msg)))
  ELSE IF IsInstance(e.cls, "JSONDecodeError")
  THEN Return(Result(0, FALSE, NoneV, Str(<<"Invalid", "JSON:">> \o e.text)))
  ELSE IF IsInstance(e.cls, "Exception")
  THEN Return(Result(0, FALSE, NoneV,
                     Str(IF SubText(<<"timeout">>, e.text)
                         THEN <<"Request", "timeout">>
                         ELSE <<"Unexpected", "error:">> \o e.text)))
  ELSE Raise(e)

\* make_request of the running script, on what the GET ended in
make_request(variant, w) ==
  LET body == TryBody(w) IN
    IF body.outcome = "return" THEN body
    ELSE IF variant = "test" THEN HandleTest(body.exc)
    ELSE HandleDiagnose(body.exc)

(***************************************************************************)
(* test-local.py: run_test.                                                *)
(***************************************************************************)
\* the list comprehension [key for key in expected_keys if key not in data]
missing_keys(expected_keys, data) ==
  SelectSeq(expected_keys, LAMBDA key : ~In(key, data))

\* run_test on the result record of make_request: what it returns (or the
\* exception that leaves it) and the missing_keys list it computed, if any
run_test(resp, expected_keys) ==
  IF ~resp.success
  THEN [outcome |-> "return", value |-> FALSE, missing |-> <<>>]
  ELSE IF Len(expected_keys) > 0 /\ Truthy(resp.data)
  THEN IF InRaises(resp.data)
       THEN [outcome |-> "raise", exc |-> [cls |-> "TypeError"],
             missing |-> <<>>]
       ELSE IF Len(missing_keys(expected_keys, resp.data)) > 0
       THEN [outcome |-> "return", value |-> FALSE,
             missing |-> missing_keys(expected_keys, resp.data)]
       ELSE [outcome |-> "return", value |-> TRUE, missing |-> <<>>]
  ELSE [outcome |-> "return", value |-> TRUE, missing |-> <<>>]

(***************************************************************************)
(* diagnose-local.py: the code that reads the decoded body after each      *)
(* successful probe.  Each operator gives the class of the exception the   *)
(* statements raise on that body, or "none".                               *)
(***************************************************************************)
\* x[key] for a text key
SubscrFault(x, key) ==
  IF x.t = "dict"
  THEN IF key \in DictKeys(x) THEN "none" ELSE "KeyError"
  ELSE "TypeError"

\* f'{x:,}' and f'{x:.1f}' accept numbers only
FormatNumFault(x) ==
  IF x.t \in {"int", "bool"} THEN "none"
  ELSE IF x.t = "str" THEN "ValueError" ELSE "TypeError"

\* the three colored_print lines after 'Database stats loaded'
StatsFault(data) ==
  IF SubscrFault(data, "totalCombinations") # "none"
  THEN SubscrFault(data, "totalCombinations")
  ELSE IF FormatNumFault(DictGet(data, "totalCombinations")) # "none"
  THEN FormatNumFault(DictGet(data, "totalCombinations"))
  ELSE IF SubscrFault(data, "drawnCombinations") # "none"
  THEN SubscrFault(data, "drawnCombinations")
  ELSE IF SubscrFault(data, "neverDrawnCombinations") # "none"
  THEN SubscrFault(data, "neverDrawnCombinations")
  ELSE FormatNumFault(DictGet(data, "neverDrawnCombinations"))

\* datetime.fromisoformat(text.replace('Z', '+00:00')) parses the text
ValidIso(text) == text \in { <<"2024-01-02T20:00:00.000Z">>,
                             <<"2024-01-02T20:00:00+00:00">> }

\* ", ".join(map(str, x)) needs an iterable
IterFault(x) == IF x.t \in {"None", "int", "bool"} THEN "TypeError" ELSE "none"

\* the lines that print the latest draw, given latest = data[0]
LatestFault(latest) ==
  IF SubscrFault(latest, "drawDate") # "none"
  THEN SubscrFault(latest, "drawDate")
  ELSE IF DictGet(latest, "drawDate").t # "str"
  THEN "AttributeError"
  ELSE IF ~ValidIso(DictGet(latest, "drawDate").v)
  THEN "ValueError"
  ELSE IF SubscrFault(latest, "numbers") # "none"
  THEN SubscrFault(latest, "numbers")
  ELSE IF IterFault(DictGet(latest, "numbers")) # "none"
  THEN IterFault(DictGet(latest, "numbers"))
  ELSE IF SubscrFault(latest, "stars") # "none"
  THEN SubscrFault(latest, "stars")
  ELSE IterFault(DictGet(latest, "stars"))

\* the lines after 'Draw history loaded': len(data), data[0], the draw
HistoryFault(data) ==
  IF data.t \in {"None", "int", "bool"} THEN "TypeError"
  ELSE IF data.t = "dict"
  THEN IF data.v = {} THEN "none" ELSE "KeyError"
  ELSE IF Len(data.v) = 0 THEN "none"
  ELSE IF data.t = "str" THEN "TypeError"
  ELSE LatestFault(data.v[1])

\* the lines after 'Data initialization completed'
InitFault(data) ==
  IF ~Truthy(data) THEN "none"
  ELSE IF InRaises(data) THEN "TypeError"
  ELSE IF ~In("stats", data) THEN "none"
  ELSE IF SubscrFault(data, "stats") # "none"
  THEN SubscrFault(data, "stats")
  ELSE IF SubscrFault(DictGet(data, "stats"), "drawnCombinations") # "none"
  THEN SubscrFault(DictGet(data, "stats"), "drawnCombinations")
  ELSE IF SubscrFault(DictGet(data, "stats"), "predictionAccuracy") # "none"
  THEN SubscrFault(DictGet(data, "stats"), "predictionAccuracy")
  ELSE FormatNumFault(DictGet(DictGet(data, "stats"), "predictionAccuracy"))

\* [str(n['number']) for n in x[:k]] for a truthy x
HotListFault(x) ==
  IF x.t \in {"int", "bool", "dict"} THEN "TypeError"
  ELSE IF x.t = "str" THEN "TypeError"
  ELSE IF \E i \in 1..Len(x.v) : SubscrFault(x.v[i], "number") # "none"
  THEN SubscrFault(
         x.v[CHOOSE i \in 1..Len(x.v) :
               /\ SubscrFault(x.v[i], "number") # "none"
               /\ \A j \in 1..(i - 1) : SubscrFault(x.v[j], "number") = "none"],
         "number")
  ELSE "none"

\* one `if key in data and data[key]:` block of the analytics section
HotBlockFault(data, key) ==
  IF ~In(key, data) THEN "none"
  ELSE IF SubscrFault(data, key) # "none" THEN SubscrFault(data, key)
  ELSE IF ~Truthy(DictGet(data, key)) THEN "none"
  ELSE HotListFault(DictGet(data, key))

\* the lines after 'Analytics loaded'
AnalyticsFault(data) ==
  IF InRaises(data) THEN "TypeError"
  ELSE IF HotBlockFault(data, "hotNumbers") # "none"
  THEN HotBlockFault(data, "hotNumbers")
  ELSE HotBlockFault(data, "hotStars")

(***************************************************************************)
(* State.                                                                  *)
(*   script      which script this run is                                  *)
(*   pc          where the script is                                       *)
(*   wire        what the latest GET ended in                              *)
(*   response    what the latest make_request call ended in                *)
(*   probes      the paths probed so far, in order                         *)
(*   outcomes    test-local: the values run_test returned, in order        *)
(*   passed, failed   test-local: the counters of main                     *)
(*   missing     test-local: the missing_keys list of the latest run_test  *)
(*   succ        diagnose-local: 'success' of each probe's result          *)
(*   printed     the status lines printed so far (by tag)                  *)
(*   exitStatus  the exit status of the process, -1 while it runs          *)
(*   steps       run-local: the steps run so far, and whether the command  *)
(*               or test of each step succeeded                            *)
(*   fault       class of the uncaught exception that ended the run        *)
(*   os          platform.system()                                         *)
(***************************************************************************)
Scripts == {"test", "diagnose", "launcher"}

NoResponse == [outcome |-> "none"]

DiagProbes == {"health_check", "stats", "history", "init", "analytics"}

Init ==
  /\ script \in Scripts
  /\ os \in {"Linux", "Windows"}
  /\ pc = CASE script = "test" -> "loop"
            [] script = "diagnose" -> "health"
            [] script = "launcher" -> "check-node"
  /\ wire = NoWire
  /\ response = NoResponse
  /\ probes = <<>>
  /\ outcomes = <<>>
  /\ passed = 0
  /\ failed = 0
  /\ missing = <<>>
  /\ succ = [p \in DiagProbes |-> "unset"]
  /\ printed = <<>>
  /\ exitStatus = -1
  /\ steps = <<>>
  /\ fault = "none"

\* an exception nobody catches: traceback, exit status 1
Uncaught(cls) ==
  /\ fault' = cls
  /\ pc' = "exited"
  /\ exitStatus' = 1

(***************************************************************************)
(* test-local.py: main.                                                    *)
(***************************************************************************)
\* one iteration of `for test_name, url, expected_keys in tests`
RunTest ==
  /\ script = "test"
  /\ pc = "loop"
  /\ Len(probes) < Len(tests)
  /\ LET spec == tests[Len(probes) + 1] IN
     \E w \in Wires(spec.url) :
       LET resp == make_request("test", w)
           ret  == run_test(resp.value, spec.keys)
       IN
         /\ wire' = w
         /\ response' = resp
         /\ probes' = Append(probes, spec.url)
         /\ IF resp.outcome = "raise"
            THEN /\ Uncaught(resp.exc.cls)
                 /\ UNCHANGED <<outcomes, passed, failed, missing>>
            ELSE IF ret.outcome = "raise"
            THEN /\ Uncaught(ret.exc.cls)
                 /\ UNCHANGED <<outcomes, passed, failed, missing>>
            ELSE /\ outcomes' = Append(outcomes, ret.value)
                 /\ missing' = ret.missing
                 /\ passed' = IF ret.value THEN passed + 1 ELSE passed
                 /\ failed' = IF ret.value THEN failed ELSE failed + 1
                 /\ UNCHANGED <<pc, exitStatus, fault>>
  /\ UNCHANGED <<script, os, succ, printed, steps>>

\* the summary after the loop and `return 0 if failed == 0 else 1`
TestSummary ==
  /\ script = "test"
  /\ pc = "loop"
  /\ Len(probes) = Len(tests)
  /\ printed' = printed \o
       (IF failed = 0
        THEN <<"Test Results:", "All tests passed!">>
        ELSE <<"Test Results:", "Some tests failed. Check the errors above.",
               "Make sure the server is running">>)
  /\ exitStatus' = IF failed = 0 THEN 0 ELSE 1
  /\ pc' = "exited"
  /\ UNCHANGED <<script, os, wire, response, probes, outcomes, passed, failed,
                 missing, succ, steps, fault>>

(***************************************************************************)
(* diagnose-local.py: main.                                                *)
(***************************************************************************)
\* the statements that read the body in the section of a probe
BodyFault(name, data) ==
  CASE name = "stats"     -> StatsFault(data)
    [] name = "history"   -> HistoryFault(data)
    [] name = "init"      -> InitFault(data)
    [] name = "analytics" -> AnalyticsFault(data)

\* a section of main after the health check: the probe, the 'success' flag
\* kept for the summary, and the lines printed from the body on success
DiagSection(name, url, nextpc) ==
  /\ \E w \in Wires(url) :
       LET resp == make_request("diagnose", w) IN
         /\ wire' = w
         /\ response' = resp
         /\ probes' = Append(probes, url)
         /\ IF resp.outcome = "raise"
            THEN /\ Uncaught(resp.exc.cls)
                 /\ UNCHANGED succ
            ELSE /\ succ' = [succ EXCEPT ![name] =
                               IF resp.value.success THEN "ok" ELSE "failed"]
                 /\ IF resp.value.success
                       /\ BodyFault(name, resp.value.data) # "none"
                    THEN Uncaught(BodyFault(name, resp.value.data))
                    ELSE /\ pc' = nextpc
                         /\ UNCHANGED <<exitStatus, fault>>
  /\ UNCHANGED <<script, os, outcomes, passed, failed, missing, steps, printed>>

\* 1. Checking server connection (returns from main when it fails)
HealthCheck ==
  /\ script = "diagnose"
  /\ pc = "health"
  /\ \E w \in Wires("/api/stats") :
       LET resp == make_request("diagnose", w)
           r == resp.value
       IN
         /\ wire' = w
         /\ response' = resp
         /\ probes' = Append(probes, "/api/stats")
         /\ IF resp.outcome = "raise"
            THEN /\ Uncaught(resp.exc.cls)
                 /\ UNCHANGED <<succ, printed>>
            ELSE /\ succ' = [succ EXCEPT !["health_check"] =
                               IF r.success THEN "ok" ELSE "failed"]
                 /\ IF ~r.success
                    THEN /\ printed' = printed \o
                              << "Server not responding",
                                 IF Truthy(r.error)
                                    /\ (SubText(<<"Connection", "refused">>,
                                                r.error.v)
                                        \/ SubText(<<"not", "found">>,
                                                   r.error.v))
                                 THEN "Environment Detection"
                                 ELSE "network connectivity issue" >>
                         /\ pc' = "exited"
                         /\ exitStatus' = 0
                         /\ UNCHANGED fault
                    ELSE /\ pc' = "stats"
                         /\ UNCHANGED <<printed, exitStatus, fault>>
  /\ UNCHANGED <<script, os, outcomes, passed, failed, missing, steps>>

\* 2. Checking database stats
CheckStats ==
  /\ script = "diagnose"
  /\ pc = "stats"
  /\ DiagSection("stats", "/api/stats", "history")

\* 3. Checking draw history
CheckHistory ==
  /\ script = "diagnose"
  /\ pc = "history"
  /\ DiagSection("history", "/api/history", "init")

\* 4. Force initializing data
ForceInit ==
  /\ script = "diagnose"
  /\ pc = "init"
  /\ DiagSection("init", "/api/initialize", "analytics")

\* 5. Checking analytics after initialization
CheckAnalytics ==
  /\ script = "diagnose"
  /\ pc = "analytics"
  /\ DiagSection("analytics", "/api/analytics/numbers", "summary")

\* Final summary; main returns None and the script ends with status 0
DiagSummary ==
  /\ script = "diagnose"
  /\ pc = "summary"
  /\ LET all_working == \A p \in DiagProbes : succ[p] = "ok" IN
       printed' = printed \o
         (IF all_working
          THEN <<"Diagnostic Summary:", "All systems working correctly!">>
          ELSE IF ~(succ["stats"] = "ok" /\ succ["history"] = "ok"
                    /\ succ["analytics"] = "ok")
          THEN <<"Diagnostic Summary:", "Some issues detected. Recommendations:",
                 "1. Check your DATABASE_URL in .env file">>
          ELSE <<"Diagnostic Summary:",
                 "Some issues detected. Recommendations:">>)
  /\ exitStatus' = 0
  /\ pc' = "exited"
  /\ UNCHANGED <<script, os, wire, response, probes, outcomes, passed, failed,
                 missing, succ, steps, fault>>

(***************************************************************************)
(* run-local.py.                                                           *)
(***************************************************************************)
\* how running an external command can end
CmdOutcomes == {"ok", "nonzero", "notfound", "denied"}

\* check_command_exists: subprocess.run([command, '--version'], check=True)
check_command_exists(o) ==
  CASE o = "ok"       -> Return(TRUE)
    [] o = "nonzero"  -> Return(FALSE)    \* CalledProcessError
    [] o = "notfound" -> Return(FALSE)    \* FileNotFoundError
    [] OTHER          -> Raise([cls |-> "PermissionError"])

\* run_command that reports success whatever the exit status was
run_command_Unchecked(system, o) ==
  CASE o = "ok"       -> Return(TRUE)
    [] o = "nonzero"  -> Return(TRUE)
    [] o = "notfound" -> IF system = "Windows" THEN Return(TRUE)
                         ELSE Raise([cls |-> "FileNotFoundError"])
    [] OTHER          -> IF system = "Windows" THEN Return(TRUE)
                         ELSE Raise([cls |-> "PermissionError"])

\* run_command with check_error=True; with shell=True (Windows) a missing
\* program is a non-zero status of the shell, not FileNotFoundError
run_command(system, o) ==
  CASE o = "ok"       -> Return(TRUE)
    [] o = "nonzero"  -> Return(FALSE)    \* CalledProcessError, caught
    [] o = "notfound" -> IF system = "Windows" THEN Return(FALSE)
                         ELSE Raise([cls |-> "FileNotFoundError"])
    [] OTHER          -> IF system = "Windows" THEN Return(FALSE)
                         ELSE Raise([cls |-> "PermissionError"])

Step(name, ok) == [step |-> name, ok |-> ok]

\* sys.exit(1) after an error message
Exit1(line) ==
  /\ printed' = Append(printed, line)
  /\ pc' = "exited"
  /\ exitStatus' = 1
  /\ UNCHANGED fault

LauncherFrame ==
  UNCHANGED <<script, os, wire, response, probes, outcomes, passed, failed,
              missing, succ>>

\* Check if Node.js is installed
CheckNode ==
  /\ script = "launcher"
  /\ pc = "check-node"
  /\ \E o \in CmdOutcomes :
       LET r == check_command_exists(o) IN
         /\ steps' = Append(steps, Step("node", o = "ok"))
         /\ IF r.outcome = "raise"
            THEN Uncaught(r.exc.cls) /\ UNCHANGED printed
            ELSE IF ~r.value
            THEN Exit1("ERROR: Node.js is not installed or not in PATH")
            ELSE pc' = "node-version"
                 /\ UNCHANGED <<printed, exitStatus, fault>>
  /\ LauncherFrame

\* Get Node.js version: only CalledProcessError is caught
GetNodeVersion ==
  /\ script = "launcher"
  /\ pc = "node-version"
  /\ \E o \in CmdOutcomes :
       /\ steps' = Append(steps, Step("node --version", o = "ok"))
       /\ CASE o = "ok" ->
                 /\ printed' = Append(printed, "Node.js version")
                 /\ pc' = "package-json"
                 /\ UNCHANGED <<exitStatus, fault>>
            [] o = "nonzero" -> Exit1("ERROR: Could not get Node.js version")
            [] o = "notfound" ->
                 Uncaught("FileNotFoundError") /\ UNCHANGED printed
            [] OTHER ->
                 Uncaught("PermissionError") /\ UNCHANGED printed
  /\ LauncherFrame

\* Check if package.json exists
CheckPackageJson ==
  /\ script = "launcher"
  /\ pc = "package-json"
  /\ \E exists \in BOOLEAN :
       /\ steps' = Append(steps, Step("package.json", exists))
       /\ IF ~exists
          THEN Exit1("ERROR: package.json not found")
          ELSE pc' = "env" /\ UNCHANGED <<printed, exitStatus, fault>>
  /\ LauncherFrame

\* what the operator answers at the prompt; EOF and Ctrl+C end input()
Replies == {"", "q", " Q ", "Exit", "no", "<EOF>", "<Ctrl+C>"}

\* response.strip().lower()
StripLower(reply) ==
  CASE reply = " Q "  -> "q"
    [] reply = "Exit" -> "exit"
    [] OTHER          -> reply

\* Check if .env exists; warn and wait for the operator when it does not
CheckEnv ==
  /\ script = "launcher"
  /\ pc = "env"
  /\ \/ /\ steps' = Append(steps, Step(".env", TRUE))
        /\ pc' = "npm-install"
        /\ UNCHANGED <<printed, exitStatus, fault>>
     \/ \E reply \in Replies :
          /\ steps' = Append(steps, Step(".env", FALSE))
          /\ CASE reply = "<EOF>" ->
                    /\ Uncaught("EOFError")
                    /\ printed' = Append(printed, "WARNING: .env file not found")
               [] reply = "<Ctrl+C>" ->
                    /\ Uncaught("KeyboardInterrupt")
                    /\ printed' = Append(printed, "WARNING: .env file not found")
               [] OTHER ->
                    IF StripLower(reply) \in {"exit", "quit", "q"}
                    THEN Exit1("WARNING: .env file not found")
                    ELSE /\ printed' =
                              Append(printed, "WARNING: .env file not found")
                         /\ pc' = "npm-install"
                         /\ UNCHANGED <<exitStatus, fault>>
  /\ LauncherFrame

\* a run_command step of main: exit 1 when it returns False
CommandStep(name, errorLine, nextpc) ==
  \E o \in CmdOutcomes :
    LET r == run_command(os, o) IN
      /\ steps' = Append(steps, Step(name, o = "ok"))
      /\ IF r.outcome = "raise"
         THEN Uncaught(r.exc.cls) /\ UNCHANGED printed
         ELSE IF ~r.value
         THEN Exit1(errorLine)
         ELSE pc' = nextpc /\ UNCHANGED <<printed, exitStatus, fault>>

\* Install dependencies
NpmInstall ==
  /\ script = "launcher"
  /\ pc = "npm-install"
  /\ CommandStep("npm install", "ERROR: Failed to install dependencies",
                 "db-push")
  /\ LauncherFrame

\* Setup database schema
DbPush ==
  /\ script = "launcher"
  /\ pc = "db-push"
  /\ CommandStep("npm run db:push", "ERROR: Failed to setup database schema",
                 "start-server")
  /\ LauncherFrame

\* subprocess.run of the server: it starts and main waits for it, or it
\* cannot be started and `except Exception` exits with 1
StartServer ==
  /\ script = "launcher"
  /\ pc = "start-server"
  /\ \/ /\ steps' = Append(steps, Step("server", TRUE))
        /\ printed' = Append(printed, "Setup complete! Starting the application...")
        /\ pc' = "attached"
        /\ UNCHANGED <<exitStatus, fault>>
     \/ /\ os # "Windows"
        /\ steps' = Append(steps, Step("server", FALSE))
        /\ printed' = printed \o <<"Setup complete! Starting the application...",
                                   "ERROR: Failed to start server">>
        /\ pc' = "exited"
        /\ exitStatus' = 1
        /\ UNCHANGED fault
  /\ LauncherFrame

\* the server process ends by itself: subprocess.run returns (no check)
ServerEnds ==
  /\ script = "launcher"
  /\ pc = "attached"
  /\ pc' = "after-run"
  /\ UNCHANGED <<printed, exitStatus, fault, steps>>
  /\ LauncherFrame

\* the operator presses Ctrl+C: KeyboardInterrupt leaves subprocess.run
Interrupt ==
  /\ script = "launcher"
  /\ pc = "attached"
  /\ pc' = "keyboard-interrupt"
  /\ UNCHANGED <<printed, exitStatus, fault, steps>>
  /\ LauncherFrame

\* a launcher without the except clause: the interrupt ends it as a fault
HandleKeyboardInterrupt_Uncaught ==
  /\ script = "launcher"
  /\ pc = "keyboard-interrupt"
  /\ Uncaught("KeyboardInterrupt")
  /\ UNCHANGED <<printed, steps>>
  /\ LauncherFrame

\* except KeyboardInterrupt
HandleKeyboardInterrupt ==
  /\ script = "launcher"
  /\ pc = "keyboard-interrupt"
  /\ printed' = printed \o <<"Shutting down gracefully...", "Server stopped">>
  /\ pc' = "after-run"
  /\ UNCHANGED <<exitStatus, fault, steps>>
  /\ LauncherFrame

\* main returns; the interpreter exits with status 0
MainReturns ==
  /\ script = "launcher"
  /\ pc = "after-run"
  /\ pc' = "exited"
  /\ exitStatus' = 0
  /\ UNCHANGED <<printed, fault, steps>>
  /\ LauncherFrame

(***************************************************************************)
(* Specifications.                                                         *)
(***************************************************************************)
Next ==
  \/ RunTest
  \/ TestSummary
  \/ HealthCheck
  \/ CheckStats
  \/ CheckHistory
  \/ ForceInit
  \/ CheckAnalytics
  \/ DiagSummary
  \/ CheckNode
  \/ GetNodeVersion
  \/ CheckPackageJson
  \/ CheckEnv
  \/ NpmInstall
  \/ DbPush
  \/ StartServer
  \/ ServerEnds
  \/ Interrupt
  \/ HandleKeyboardInterrupt
  \/ MainReturns

Spec == Init /\ [][Next]_vars

\* the interpreter keeps running the launcher's own code: the except clause
\* and the return of main are taken once control reaches them
FairSpec == Spec /\ WF_vars(HandleKeyboardInterrupt) /\ WF_vars(MainReturns)

(***************************************************************************)
(* Properties.                                                             *)
(***************************************************************************)
Probed == response # NoResponse

Returned == Probed /\ response.outcome = "return"

\* the GET was answered with status 200 and a body that decodes as JSON
WireOkJson ==
  wire.kind = "http" /\ wire.status = 200 /\ wire.raw.enc = "json"

\* C1: every result of make_request has succeeded true exactly when the
\* status is 200 and the body decoded as JSON, and errorMessage set (not
\* None) exactly when succeeded is false.
C1_SucceededIffOkAndErrorIffFailed ==
  Returned =>
    /\ response.value.success <=> WireOkJson
    /\ response.value.error # NoneV <=> ~response.value.success

\* what the check runner is specified to compute: the required keys absent
\* from the top level of the body, all of them when it is not a mapping
RequiredKeysAbsent(requiredKeys, body) ==
  SelectSeq(requiredKeys,
            LAMBDA key : ~(body.t = "dict" /\ key \in DictKeys(body)))

\* C2: for every check whose probe succeeded and whose requiredKeys is
\* present, run_test computes missingKeys as exactly the required keys
\* absent from the top level of the decoded body, and the check fails if
\* missingKeys is non-empty and passes otherwise.
C2_MissingKeysExact ==
  ( /\ script = "test"
    /\ Returned
    /\ response.value.success
    /\ Len(tests[Len(probes)].keys) > 0 )
  =>
    /\ fault = "none"
    /\ Len(outcomes) = Len(probes)
    /\ missing = RequiredKeysAbsent(tests[Len(probes)].keys,
                                    response.value.data)
    /\ outcomes[Len(outcomes)] = (missing = <<>>)

\* C3: make_request never raises to its caller; whatever the GET ended in,
\* it returns a record with the fields status, success, data and error.
C3_NeverRaises ==
  Probed =>
    /\ response.outcome = "return"
    /\ DOMAIN response.value = {"status", "success", "data", "error"}

\* a probe whose body could not even be decoded as text came back as a record
C3_Witness ==
  /\ script = "diagnose"
  /\ wire.kind = "http" /\ wire.status = 200 /\ wire.raw.enc = "bad-utf8"
  /\ Returned
  /\ response.value.success = FALSE

\* the probes a script is to issue, in order
Plan(s) ==
  IF s = "test" THEN [i \in 1..Len(tests) |-> tests[i].url]
  ELSE <<"/api/stats", "/api/stats", "/api/history", "/api/initialize",
         "/api/analytics/numbers">>

IsPrefix(a, b) == Len(a) <= Len(b) /\ \A i \in 1..Len(a) : a[i] = b[i]

\* C4: no short-circuiting: in one run of a check script every check of its
\* list is attempted, in list order, whatever earlier checks did.
C4_NoShortCircuit ==
  script \in {"test", "diagnose"} =>
    /\ IsPrefix(probes, Plan(script))
    /\ pc = "exited" => probes = Plan(script)

\* some check of the run failed / every check of the run passed
SomeCheckFailed ==
  IF script = "test"
  THEN fault # "none" \/ \E i \in 1..Len(outcomes) : ~outcomes[i]
  ELSE fault # "none" \/ \E p \in DiagProbes : succ[p] = "failed"

AllChecksPassed ==
  /\ fault = "none"
  /\ IF script = "test"
     THEN Len(outcomes) = Len(tests) /\ \A i \in 1..Len(outcomes) : outcomes[i]
     ELSE \A p \in DiagProbes : succ[p] = "ok"

\* C5: a check script ends with exit status 0 when every check passed and
\* with exit status 1 when at least one check failed.
C5_ExitStatus ==
  (script \in {"test", "diagnose"} /\ pc = "exited") =>
    /\ AllChecksPassed => exitStatus = 0
    /\ SomeCheckFailed => exitStatus = 1

\* C6: no error kind leaves a check script as an uncaught fault; a body
\* lacking an expected field, or of the wrong shape, gives a failed outcome.
C6_NoUncaughtFault ==
  script \in {"test", "diagnose"} => fault = "none"

\* C7: when the connection is refused, make_request returns succeeded =
\* false, statusCode = 0, no data, and an errorMessage containing
\* "Connection refused - server is not running", in both scripts.
C7_RefusedMessage ==
  (Probed /\ wire.kind = "urlerror" /\ wire.reason \in RefusedReasons) =>
    /\ response.outcome = "return"
    /\ response.value.success = FALSE
    /\ response.value.status = 0
    /\ response.value.data = NoneV
    /\ response.value.error.t = "str"
    /\ SubText(ServerNotRunning, response.value.error.v)

\* the steps of the launcher, in the order main takes them
LaunchOrder ==
  <<"node", "node --version", "package.json", ".env", "npm install",
    "npm run db:push", "server">>

ServerStarted == \E i \in 1..Len(steps) : steps[i] = Step("server", TRUE)

\* C8: the launcher starts the server only after the node check and version
\* query, the package.json check, npm install and npm run db:push succeeded,
\* in this order; a failed step ends the launcher with a non-zero status,
\* no step follows it and the server is never started.
C8_ServerOnlyAfterSetup ==
  script = "launcher" =>
    /\ Len(steps) <= Len(LaunchOrder)
    /\ \A i \in 1..Len(steps) : steps[i].step = LaunchOrder[i]
    /\ ServerStarted =>
         \A name \in {"node", "node --version", "package.json", "npm install",
                      "npm run db:push"} :
           \E i \in 1..Len(steps) : steps[i] = Step(name, TRUE)
    /\ \A i \in 1..Len(steps) :
         (~steps[i].ok /\ steps[i].step # ".env") =>
           /\ i = Len(steps)
           /\ pc = "exited"
           /\ exitStatus > 0
           /\ ~ServerStarted

\* the server was started behind a complete setup
C8_Witness ==
  /\ script = "launcher"
  /\ ServerStarted
  /\ pc = "attached"

GracefulLine == "Shutting down gracefully..."

\* C9: an interrupt received while the server is attached is caught and
\* turned into the graceful-shutdown message, after which the launcher ends
\* with exit status 0 and no uncaught fault; the launcher always terminates
\* once the server process has ended or was interrupted.
C9_InterruptGraceful ==
  /\ (script = "launcher" /\ pc = "keyboard-interrupt")
       ~> ( /\ pc = "exited" /\ exitStatus = 0 /\ fault = "none"
            /\ \E i \in 1..Len(printed) : printed[i] = GracefulLine )
  /\ (script = "launcher" /\ pc = "after-run")
       ~> (pc = "exited" /\ exitStatus = 0 /\ fault = "none")

\* the launcher has ended cleanly after an interrupt
C9_Witness ==
  /\ script = "launcher"
  /\ ServerStarted
  /\ pc = "exited"
  /\ exitStatus = 0
  /\ \E i \in 1..Len(printed) : printed[i] = GracefulLine

\* C10: at the end of a run of the test script passedCount + failedCount is
\* the number of checks in the list, and passedCount is the number of checks
\* for which run_test returned success.
C10_CountsAddUp ==
  (script = "test" /\ pc = "exited") =>
    /\ passed + failed = Len(tests)
    /\ passed = Cardinality({i \in 1..Len(outcomes) : outcomes[i]})

Printed(line) == \E i \in 1..Len(printed) : printed[i] = line

\* the summary of the run was printed
SummaryPrinted == Printed("Test Results:") \/ Printed("Diagnostic Summary:")

\* the all-pass closing message / a remediation hint of either script
AllPassPrinted ==
  Printed("All tests passed!") \/ Printed("All systems working correctly!")

HintPrinted ==
  \/ Printed("Make sure the server is running")
  \/ Printed("1. Check your DATABASE_URL in .env file")

\* C11: at the end of a run the reporter prints the all-pass closing message
\* exactly when no check of the run failed, and otherwise prints a
\* remediation hint, in the summary of the test script and of the diagnose
\* script, whichever of the probes failed.
C11_ClosingMessage ==
  (script \in {"test", "diagnose"} /\ SummaryPrinted) =>
    /\ AllPassPrinted <=> ~SomeCheckFailed
    /\ ~AllPassPrinted => HintPrinted

====
